---- MODULE Spec2Model ----
(***************************************************************************)
(* Layered memory store (memory_store.py) and the Buffer -> Canon          *)
(* promotion pipeline (curator.py, base_agent.py, orchestrator.py).        *)
(*                                                                         *)
(* Text values are sequences of tokens: concatenation is \o and            *)
(* str.startswith is a prefix test on the token sequence.  Confidences     *)
(* are counted in tenths (7 stands for 0.7).  The timestamp fields that    *)
(* _now() fills in steer no branch of the code and are left out of the     *)
(* records.                                                                *)
(*                                                                         *)
(* Spec           one process: the tool handlers of the orchestrator and   *)
(*                the specialists, and curate_task with its agentic loop,  *)
(*                one whole handler per step.                              *)
(* SpecBatch      one task curated with responses of several tool_use      *)
(*                blocks, two claims and two target keys.                  *)
(* SpecAgents     the dispatch of a specialist agent next to the           *)
(*                orchestrator's write_to_canon and the curator.           *)
(* SpecStore      the Buffer methods of MemoryStore called directly.       *)
(* SpecCanon      the constructor's seeding and write_to_canon.            *)
(* SpecLedger     the Task Memory methods, one whole call per step.        *)
(* SpecContext    get_context next to the Buffer, scratch and Task Memory  *)
(*                methods that change what it reads.                       *)
(* SpecDepth      the stack of orchestrators and specialists inside run(). *)
(* SpecMalformed  one task curated with decisions that are not well formed.*)
(* SpecLive       the agentic loop of a curation without a bound on its    *)
(*                rounds, with every oracle call and handler returning.    *)
(* SpecConc       two processes on one memory directory; the Canon and     *)
(*                Buffer methods advance one file read or write at a time. *)
(* SpecLedgerConc the same for the Task Memory methods.                    *)
(***************************************************************************)
EXTENDS FiniteSets, Integers, Sequences, TLC

VARIABLES
    canon,          \* canon/canon.json: full key -> entry
    buffer_file,    \* buffer/buffer.jsonl: the lines of the file
    disputes,       \* disputes/disputes.jsonl: the records of the file
    tasks,          \* tasks/<task_id>.json: task id -> document
    scratch,        \* scratch/<agent>_<task>.json: file name -> notes
    ret,            \* value returned by the last handler that completed
    cur_pc,         \* position of the running curate_task call
    cur_task,       \* task_id argument of the running curate_task call
    cur_buffer,     \* curate_task's local buffer: the entries selected at its start
    blocks,         \* tool_use blocks of the current response not yet dispatched
    tool_results,   \* results collected for the current response
    decided,        \* tool_use blocks received so far by the running curate_task call
    pc,             \* per writer: position inside its current store operation
    loc,            \* per writer: arguments and locals of that operation
    running         \* the agents inside run(), outermost first: kind, type, depth

stores == <<canon, buffer_file, disputes, tasks, scratch>>
curator == <<cur_pc, cur_task, cur_buffer, blocks, tool_results, decided>>
writers == <<pc, loc>>
vars == <<canon, buffer_file, disputes, tasks, scratch, ret,
          cur_pc, cur_task, cur_buffer, blocks, tool_results, decided, pc, loc,
          running>>

----------------------------------------------------------------------------
(* Bounds and input domains *)

MaxBuffer == 2
MaxDisputes == 1
MaxNotes == 1
MaxDecisions == 2
MaxCalls == 2

Claims == {<<"X=5">>, <<"X=6">>}
AgentTypes == {<<"research">>}
TaskIds == {<<"T1">>, <<"T2">>}
EntryIds == {<<"e1">>, <<"e2">>}
UnknownId == <<"e9">>
DisputeIds == {<<"d1">>}
Values == {<<"v1">>}
Notes == {<<"n1">>}

DefaultBufferConfidence == 5
DefaultCanonConfidence == 9
DefaultPromoteConfidence == 7
SeedConfidence == 10
MAX_DEPTH == 3

----------------------------------------------------------------------------
(* Generic helpers *)

EmptyMap == <<>>

Get(inp, field, default) == IF field \in DOMAIN inp THEN inp[field] ELSE default

Put(m, k, v) == [x \in DOMAIN m \cup {k} |-> IF x = k THEN v ELSE m[x]]

StartsWith(s, prefix) ==
    /\ Len(prefix) <= Len(s)
    /\ SubSeq(s, 1, Len(prefix)) = prefix

Blank == [blank |-> TRUE]

----------------------------------------------------------------------------
(* MemoryStore: Canon *)

EntryId(namespace, key) == namespace \o <<"/">> \o key

CanonEntry(namespace, content, source, confidence, confirmed_by_user) ==
    [content |-> content, source |-> source, confidence |-> confidence,
     confirmed_by_user |-> confirmed_by_user, namespace |-> namespace]

read_canon_exact(data, namespace) ==
    IF Len(namespace) > 0
    THEN [k \in {x \in DOMAIN data : x = namespace} |-> data[k]]
    ELSE data

read_canon_by_field(data, namespace) ==
    IF Len(namespace) > 0
    THEN [k \in {x \in DOMAIN data : data[x].namespace = namespace} |-> data[k]]
    ELSE data

read_canon(data, namespace) ==
    IF Len(namespace) > 0
    THEN [k \in {x \in DOMAIN data : StartsWith(x, namespace)} |-> data[k]]
    ELSE data

write_canon(data, namespace, key, content, source, confidence, confirmed_by_user) ==
    Put(data, EntryId(namespace, key),
        CanonEntry(namespace, content, source, confidence, confirmed_by_user))

SeedCanonAlways(data) ==
    write_canon(
        write_canon(data, <<"identity">>, <<"system">>, <<"hierarchy">>,
                    <<"system_init">>, SeedConfidence, TRUE),
        <<"standards">>, <<"memory_rules">>, <<"rules">>,
        <<"system_init">>, SeedConfidence, TRUE)

SeedCanon(data) ==
    IF DOMAIN data # {}
    THEN data
    ELSE write_canon(
            write_canon(data, <<"identity">>, <<"system">>, <<"hierarchy">>,
                        <<"system_init">>, SeedConfidence, TRUE),
            <<"standards">>, <<"memory_rules">>, <<"rules">>,
            <<"system_init">>, SeedConfidence, TRUE)

----------------------------------------------------------------------------
(* MemoryStore: Buffer *)

BufferRecord(entry_id, claim, source, agent, task_id, confidence) ==
    [id |-> entry_id, claim |-> claim, source |-> source, agent |-> agent,
     task_id |-> task_id, confidence |-> confidence,
     promoted |-> FALSE, dismissed |-> FALSE]

IsRecordLine(line) == line # Blank

read_jsonl(file) == SelectSeq(file, IsRecordLine)

append_jsonl_front(file, record) == <<record>> \o file

append_jsonl(file, record) == Append(file, record)

FilterTask(records, task_id) ==
    LET Keep(r) == r.task_id = task_id IN SelectSeq(records, Keep)

FilterPromoted(records, promoted) ==
    LET Keep(r) == r.promoted = promoted IN SelectSeq(records, Keep)

read_buffer(file) == read_jsonl(file)

read_buffer_task(file, task_id, promoted) ==
    FilterPromoted(FilterTask(read_jsonl(file), task_id), promoted)

SetPromotedNever(r, entry_id) == r

SetPromoted(r, entry_id) ==
    IF r.id = entry_id THEN [r EXCEPT !.promoted = TRUE] ELSE r

SetDismissedAll(r, entry_id) == [r EXCEPT !.dismissed = TRUE]

SetDismissedRedact(r, entry_id) ==
    IF r.id = entry_id THEN [r EXCEPT !.dismissed = TRUE, !.claim = <<>>] ELSE r

SetDismissed(r, entry_id) ==
    IF r.id = entry_id THEN [r EXCEPT !.dismissed = TRUE] ELSE r

JoinLines(records) == IF records = <<>> THEN <<Blank>> ELSE records

\* _rewrite_buffer writes the updated records, joined by and ended with "\n"
rewrite_buffer(updated) == JoinLines(updated)

mark_buffer_promoted(records, entry_id) ==
    rewrite_buffer([i \in 1..Len(records) |-> SetPromoted(records[i], entry_id)])

mark_buffer_dismissed_drop(records, entry_id) ==
    LET Other(r) == r.id # entry_id IN rewrite_buffer(SelectSeq(records, Other))

mark_buffer_dismissed(records, entry_id) ==
    rewrite_buffer([i \in 1..Len(records) |-> SetDismissed(records[i], entry_id)])

FindEntryFirst(records, entry_id) ==
    IF records = <<>> THEN <<>> ELSE <<records[1]>>

FindEntry(records, entry_id) ==
    LET hits == {i \in 1..Len(records) : records[i].id = entry_id}
    IN  IF hits = {} THEN <<>>
        ELSE <<records[CHOOSE i \in hits : \A j \in hits : i <= j]>>

----------------------------------------------------------------------------
(* MemoryStore: Task memory, Scratch, Disputes *)

NewTask(task_id, prompt) ==
    [task_id |-> task_id, prompt |-> prompt,
     artifacts |-> EmptyMap, agent_outputs |-> EmptyMap]

ReadTask(docs, task_id, default) ==
    IF task_id \in DOMAIN docs THEN docs[task_id] ELSE default

write_task_memory_fresh(data, key, value) ==
    Put(data, "artifacts", Put(EmptyMap, key, [value |-> value]))

write_task_memory(data, key, value) ==
    Put(data, "artifacts", Put(Get(data, "artifacts", EmptyMap), key, [value |-> value]))

write_agent_output(data, agent, output) ==
    Put(data, "agent_outputs", Put(Get(data, "agent_outputs", EmptyMap), agent, output))

ScratchPathShared(agent_type, task_id) == <<"shared_">> \o task_id

ScratchPath(agent_type, task_id) == agent_type \o <<"_">> \o task_id

read_scratch(files, agent_type, task_id) ==
    Get(files, ScratchPath(agent_type, task_id), <<>>)

DisputeRecordSwapped(dispute_id, buffer_id, canon_id, reason) ==
    [id |-> dispute_id, buffer_id |-> canon_id, canon_id |-> buffer_id,
     reason |-> reason, resolved |-> FALSE]

DisputeRecord(dispute_id, buffer_id, canon_id, reason) ==
    [id |-> dispute_id, buffer_id |-> buffer_id, canon_id |-> canon_id,
     reason |-> reason, resolved |-> FALSE]

----------------------------------------------------------------------------
(* Result texts *)

MsgWritten(canon_id) == <<"Written to Canon[">> \o canon_id \o <<"]">>
MsgStored(eid) == <<"Stored in Buffer[">> \o eid \o <<"]">>
MsgSavedTask(key) == <<"Saved to Task Memory[">> \o key \o <<"]">>
MsgSavedScratch == <<"Saved to scratch.">>
MsgNoEntries(task_id) ==
    <<"[Curator] No buffer entries to curate for task ">> \o task_id \o <<".">>
MsgNotFound(entry_id) ==
    <<"[Curator] Entry ">> \o entry_id \o <<" not found in buffer.">>
MsgAlreadyExists(full_key) ==
    <<"[Curator] Canon[">> \o full_key
        \o <<"] already exists. Use flag_conflict if there is a discrepancy.">>
MsgPromoted(entry_id, canon_id, confidence) ==
    <<"[Curator] Promoted buffer:">> \o entry_id \o <<" -> Canon[">> \o canon_id
        \o <<"] conf=", ToString(confidence)>>
MsgDispute(dispute_id) == <<"[Curator] Conflict recorded as dispute ">> \o dispute_id
MsgDismissed(entry_id, reason) ==
    <<"[Curator] Dismissed buffer:">> \o entry_id \o <<" - ">> \o reason
MsgUnknownTool(tool_name) == <<"[Error] Unknown curator tool: ", tool_name>>
OracleText == <<"oracle text">>
SearchText == <<"search results">>
MsgMemoryUnavailable == <<"[Memory not available for this agent call]">>
MsgUnknownAgentTool(tool_name) == <<"[Error] Unknown tool: ", tool_name>>
MsgMaxDepth ==
    <<"Maximum recursion depth reached. ",
      "Handle this sub-task directly without spawning further agents.">>
Raised == <<"exception">>
NoReturn == <<>>

----------------------------------------------------------------------------
(* Initial state: a MemoryStore constructed over an empty memory/ directory *)

Idle == [op |-> "idle", calls |-> 0]

Writers == {1, 2}

Init ==
    /\ canon = SeedCanon(EmptyMap)
    /\ buffer_file = <<>>
    /\ disputes = <<>>
    /\ tasks = EmptyMap
    /\ scratch = EmptyMap
    /\ ret = NoReturn
    /\ cur_pc = "idle"
    /\ cur_task = <<>>
    /\ cur_buffer = <<>>
    /\ blocks = <<>>
    /\ tool_results = <<>>
    /\ decided = 0
    /\ running = <<>>
    /\ pc = [w \in Writers |-> "idle"]
    /\ loc = [w \in Writers |-> Idle]

----------------------------------------------------------------------------
(* Orchestrator and specialist tool handlers, one whole handler per step *)

WriteToCanon(inp) ==
    /\ cur_pc = "idle"
    /\ LET namespace == Get(inp, "namespace", <<"facts">>)
           key == Get(inp, "key", <<"entry">>)
       IN  /\ canon' = write_canon(canon, namespace, key,
                                   Get(inp, "content", <<>>),
                                   Get(inp, "source", <<"orchestrator">>),
                                   Get(inp, "confidence", DefaultCanonConfidence),
                                   FALSE)
           /\ ret' = MsgWritten(EntryId(namespace, key))
    /\ UNCHANGED <<buffer_file, disputes, tasks, scratch, curator, writers, running>>

WriteToBuffer(inp, agent, task_id, entry_id) ==
    /\ cur_pc = "idle"
    /\ Len(buffer_file) < MaxBuffer
    /\ buffer_file' = append_jsonl(buffer_file,
            BufferRecord(entry_id, Get(inp, "claim", <<>>),
                         Get(inp, "source", agent), agent, task_id,
                         Get(inp, "confidence", DefaultBufferConfidence)))
    /\ ret' = MsgStored(entry_id)
    /\ UNCHANGED <<canon, disputes, tasks, scratch, curator, writers, running>>

WriteToTaskMemory(inp, task_id) ==
    /\ cur_pc = "idle"
    /\ LET key == Get(inp, "key", <<"note">>)
           data == ReadTask(tasks, task_id, [artifacts |-> EmptyMap])
       IN  /\ tasks' = Put(tasks, task_id,
                           write_task_memory(data, key, Get(inp, "value", <<>>)))
           /\ ret' = MsgSavedTask(Get(inp, "key", <<"None">>))
    /\ UNCHANGED <<canon, buffer_file, disputes, scratch, curator, writers, running>>

WriteToScratch(inp, agent_type, task_id) ==
    /\ cur_pc = "idle"
    /\ Len(read_scratch(scratch, agent_type, task_id)) < MaxNotes
    /\ scratch' = Put(scratch, ScratchPath(agent_type, task_id),
                      Append(read_scratch(scratch, agent_type, task_id),
                             [note |-> Get(inp, "note", <<>>)]))
    /\ ret' = MsgSavedScratch
    /\ UNCHANGED <<canon, buffer_file, disputes, tasks, curator, writers, running>>

----------------------------------------------------------------------------
(* SpecialistAgent: the dispatch function of run and the end of run.  The    *)
(* tool calls of a spawned sub-agent are dispatch steps of their own; the    *)
(* spawn_sub_agent handler itself ends with the sub-agent's end of run.      *)

SpecialistTypes == {<<"research">>, <<"code">>, <<"data">>, <<"writing">>}

Answer(value) ==
    /\ cur_pc = "idle"
    /\ ret' = value
    /\ UNCHANGED <<stores, curator, writers, running>>

\* the end of SpecialistAgent.run: the agent's text is saved as its output
SpecialistReturns(agent_type, task_id, has_memory) ==
    /\ cur_pc = "idle"
    /\ tasks' = IF has_memory
                THEN Put(tasks, task_id,
                         write_agent_output(
                            ReadTask(tasks, task_id, [agent_outputs |-> EmptyMap]),
                            agent_type, OracleText))
                ELSE tasks
    /\ ret' = OracleText
    /\ UNCHANGED <<canon, buffer_file, disputes, scratch, curator, writers, running>>

Spawn(input_data, depth, task_id, has_memory) ==
    IF depth >= MAX_DEPTH
    THEN Answer(MsgMaxDepth)
    ELSE IF Get(input_data, "agent_type", <<>>) \notin SpecialistTypes
    THEN Answer(Raised)
    ELSE SpecialistReturns(Get(input_data, "agent_type", <<>>), task_id, has_memory)

SpecialistDispatchCanon(tool_name, tool_input, agent_type, depth, task_id, has_memory, entry_id) ==
    IF tool_name = "write_to_canon"
    THEN WriteToCanon(tool_input)
    ELSE Answer(MsgUnknownAgentTool(tool_name))

SpecialistDispatch(tool_name, tool_input, agent_type, depth, task_id, has_memory, entry_id) ==
    IF tool_name = "spawn_sub_agent"
    THEN Spawn(tool_input, depth, task_id, has_memory)
    ELSE IF tool_name = "web_search"
    THEN Answer(SearchText)
    ELSE IF tool_name = "write_to_buffer" /\ has_memory
    THEN WriteToBuffer(tool_input, agent_type, task_id, entry_id)
    ELSE IF tool_name = "write_to_scratch" /\ has_memory
    THEN WriteToScratch(tool_input, agent_type, task_id)
    ELSE IF tool_name = "write_to_task_memory" /\ has_memory
    THEN WriteToTaskMemory(tool_input, task_id)
    ELSE IF tool_name \in {"write_to_buffer", "write_to_scratch", "write_to_task_memory"}
    THEN Answer(MsgMemoryUnavailable)
    ELSE Answer(MsgUnknownAgentTool(tool_name))

----------------------------------------------------------------------------
(* MemoryCurator.curate_task and the agentic loop *)

PendingUndismissedOrNot(file, task_id) == read_buffer_task(file, task_id, FALSE)

Pending(file, task_id) ==
    LET Live(e) == ~e.dismissed
    IN  SelectSeq(read_buffer_task(file, task_id, FALSE), Live)

Return(value) ==
    /\ ret' = value
    /\ cur_pc' = "idle"
    /\ cur_task' = <<>>
    /\ cur_buffer' = <<>>
    /\ blocks' = <<>>
    /\ tool_results' = <<>>
    /\ decided' = 0

CurateTask(task_id) ==
    /\ cur_pc = "idle"
    /\ IF Pending(buffer_file, task_id) = <<>>
       THEN Return(MsgNoEntries(task_id))
       ELSE /\ ret' = NoReturn
            /\ cur_pc' = "oracle"
            /\ cur_task' = task_id
            /\ cur_buffer' = Pending(buffer_file, task_id)
            /\ UNCHANGED <<blocks, tool_results, decided>>
    /\ UNCHANGED <<stores, writers, running>>

OracleToolUse(content) ==
    /\ cur_pc = "oracle"
    /\ content # <<>>
    /\ decided + Len(content) <= MaxDecisions
    /\ decided' = decided + Len(content)
    /\ blocks' = content
    /\ tool_results' = <<>>
    /\ cur_pc' = "dispatch"
    /\ UNCHANGED <<stores, ret, cur_task, cur_buffer, writers, running>>

OracleStop(stop_reason) ==
    /\ cur_pc = "oracle"
    /\ stop_reason # "tool_use"
    /\ Return(OracleText)
    /\ UNCHANGED <<stores, writers, running>>

OracleRaises ==
    /\ cur_pc = "oracle"
    /\ Return(Raised)
    /\ UNCHANGED <<stores, writers, running>>

CollectAbort(result) ==
    LET rejected == result[1] \in {"[Curator] Entry ", "[Curator] Canon["}
        rest == IF rejected THEN <<>> ELSE Tail(blocks)
    IN  /\ tool_results' = Append(tool_results, result)
        /\ blocks' = rest
        /\ cur_pc' = IF rest = <<>> THEN "oracle" ELSE "dispatch"
        /\ UNCHANGED <<ret, cur_task, cur_buffer, decided, writers, running>>

Collect(result) ==
    /\ tool_results' = Append(tool_results, result)
    /\ blocks' = Tail(blocks)
    /\ cur_pc' = IF Tail(blocks) = <<>> THEN "oracle" ELSE "dispatch"
    /\ UNCHANGED <<ret, cur_task, cur_buffer, decided, writers, running>>

Dispatching(tool_name) ==
    /\ cur_pc = "dispatch"
    /\ blocks # <<>>
    /\ Head(blocks).name = tool_name

\* a confidence that is not a number comes in the field confidence_text, and
\* float() raises on it before anything is read
Promote ==
    /\ Dispatching("promote_to_canon")
    /\ LET inp == Head(blocks).input
           entry_id == Get(inp, "entry_id", <<>>)
           namespace == Get(inp, "namespace", <<"facts">>)
           key == Get(inp, "key", entry_id)
           confidence == Get(inp, "confidence", DefaultPromoteConfidence)
           found == FindEntry(read_buffer(buffer_file), entry_id)
           existing == read_canon(canon, namespace)
           full_key == EntryId(namespace, key)
       IN  IF "confidence_text" \in DOMAIN inp
           THEN /\ Return(Raised)
                /\ UNCHANGED <<stores, writers, running>>
           ELSE IF found = <<>>
           THEN /\ Collect(MsgNotFound(entry_id))
                /\ UNCHANGED stores
           ELSE IF full_key \in DOMAIN existing
           THEN /\ Collect(MsgAlreadyExists(full_key))
                /\ UNCHANGED stores
           ELSE /\ canon' = write_canon(canon, namespace, key, found[1].claim,
                        <<"buffer:">> \o found[1].source \o <<"|curator_promoted">>,
                        confidence, FALSE)
                /\ buffer_file' = mark_buffer_promoted(read_jsonl(buffer_file), entry_id)
                /\ Collect(MsgPromoted(entry_id, full_key, confidence))
                /\ UNCHANGED <<disputes, tasks, scratch>>

FlagConflict(dispute_id) ==
    /\ Dispatching("flag_conflict")
    /\ Len(disputes) < MaxDisputes
    /\ LET inp == Head(blocks).input
       IN  disputes' = append_jsonl(disputes,
                DisputeRecord(dispute_id, Get(inp, "buffer_id", <<>>),
                              Get(inp, "canon_id", <<>>), Get(inp, "reason", <<>>)))
    /\ Collect(MsgDispute(dispute_id))
    /\ UNCHANGED <<canon, buffer_file, tasks, scratch>>

Dismiss ==
    /\ Dispatching("dismiss_buffer_entry")
    /\ LET inp == Head(blocks).input
           entry_id == Get(inp, "entry_id", <<>>)
           reason == Get(inp, "reason", <<"low quality or task-specific">>)
       IN  /\ buffer_file' = mark_buffer_dismissed(read_jsonl(buffer_file), entry_id)
           /\ Collect(MsgDismissed(entry_id, reason))
    /\ UNCHANGED <<canon, disputes, tasks, scratch>>

UnknownTool ==
    /\ cur_pc = "dispatch"
    /\ blocks # <<>>
    /\ Head(blocks).name \notin {"promote_to_canon", "flag_conflict", "dismiss_buffer_entry"}
    /\ Collect(MsgUnknownTool(Head(blocks).name))
    /\ UNCHANGED stores

----------------------------------------------------------------------------
(* Inputs of the sequential program *)

CanonInputs == {[namespace |-> <<"facts">>, key |-> <<"X">>, content |-> c] : c \in Claims}

BufferInputs == {[claim |-> <<"X=5">>, source |-> <<"web_search">>]}

PromoteDecisions ==
    {[name |-> "promote_to_canon",
      input |-> [entry_id |-> e, namespace |-> <<"facts">>, key |-> <<"X">>,
                 confidence |-> 8]] : e \in EntryIds}

DismissDecisions ==
    {[name |-> "dismiss_buffer_entry", input |-> [entry_id |-> e, reason |-> <<"r1">>]] :
        e \in {<<"e1">>, UnknownId}}

FlagDecisions ==
    {[name |-> "flag_conflict",
      input |-> [buffer_id |-> <<"e1">>, canon_id |-> EntryId(<<"facts">>, <<"X">>),
                 reason |-> <<"r1">>]]}

OtherDecisions == {[name |-> "write_to_canon", input |-> EmptyMap]}

Decisions == PromoteDecisions \cup DismissDecisions \cup FlagDecisions \cup OtherDecisions

SeqsUpTo(S, n) == UNION {[1..m -> S] : m \in 1..n}

Responses == SeqsUpTo(Decisions, 1)

StopReasons == {"end_turn", "max_tokens"}

Next ==
    \/ \E inp \in CanonInputs : WriteToCanon(inp)
    \/ \E inp \in BufferInputs, a \in AgentTypes, t \in TaskIds, e \in EntryIds :
            WriteToBuffer(inp, a, t, e)
    \/ \E k \in {<<"k1">>}, v \in Values : WriteToTaskMemory([key |-> k, value |-> v], <<"T1">>)
    \/ \E n \in Notes, a \in AgentTypes : WriteToScratch([note |-> n], a, <<"T1">>)
    \/ \E t \in TaskIds : CurateTask(t)
    \/ \E content \in Responses : OracleToolUse(content)
    \/ \E r \in StopReasons : OracleStop(r)
    \/ OracleRaises
    \/ Promote
    \/ \E d \in DisputeIds : FlagConflict(d)
    \/ Dismiss
    \/ UnknownTool

Spec == Init /\ [][Next]_vars

----------------------------------------------------------------------------
(* One task curated with responses of several tool_use blocks, two claims   *)
(* and two target keys                                                     *)

BatchBufferWrites ==
    {<<[claim |-> <<"X=5">>, source |-> <<"web_search">>], (<<"e1">>)>>,
     <<[claim |-> <<"X=6">>, source |-> <<"paper">>, confidence |-> 6], (<<"e2">>)>>}

BatchDecisions ==
    {[name |-> "promote_to_canon",
      input |-> [entry_id |-> e, namespace |-> <<"facts">>, key |-> <<"X">>,
                 confidence |-> 8]] : e \in EntryIds \cup {UnknownId}}
    \cup {[name |-> "promote_to_canon",
           input |-> [entry_id |-> <<"e1">>, namespace |-> <<"facts">>,
                      key |-> <<"Y">>, confidence |-> 6]],
          [name |-> "dismiss_buffer_entry",
           input |-> [entry_id |-> <<"e2">>, reason |-> <<"r1">>]]}
    \cup FlagDecisions \cup OtherDecisions

BatchResponses == SeqsUpTo(BatchDecisions, MaxDecisions)

NextBatch ==
    \/ \E w \in BatchBufferWrites : WriteToBuffer(w[1], <<"research">>, <<"T1">>, w[2])
    \/ CurateTask(<<"T1">>)
    \/ \E content \in BatchResponses : OracleToolUse(content)
    \/ \E r \in StopReasons : OracleStop(r)
    \/ OracleRaises
    \/ Promote
    \/ \E d \in DisputeIds : FlagConflict(d)
    \/ Dismiss
    \/ UnknownTool

SpecBatch == Init /\ [][NextBatch]_vars

----------------------------------------------------------------------------
(* One task curated with decisions that are not well formed                 *)

MalformedDecisions ==
    {[name |-> "promote_to_canon",
      input |-> [entry_id |-> <<"e1">>, namespace |-> <<"facts">>, key |-> <<"X">>,
                 confidence_text |-> <<"high">>]],
     [name |-> "promote_to_canon",
      input |-> [entry_id |-> <<"e1">>, namespace |-> <<"facts">>, key |-> <<"X">>,
                 confidence |-> 8]],
     [name |-> "dismiss_buffer_entry",
      input |-> [entry_id |-> <<"e2">>, reason |-> <<"r1">>]]}
    \cup OtherDecisions

NextMalformed ==
    \/ \E w \in BatchBufferWrites : WriteToBuffer(w[1], <<"research">>, <<"T1">>, w[2])
    \/ CurateTask(<<"T1">>)
    \/ \E content \in SeqsUpTo(MalformedDecisions, MaxDecisions) : OracleToolUse(content)
    \/ \E r \in StopReasons : OracleStop(r)
    \/ OracleRaises
    \/ Promote
    \/ Dismiss
    \/ UnknownTool

SpecMalformed == Init /\ [][NextMalformed]_vars

----------------------------------------------------------------------------
(* The agentic loop of one curation without a bound on its rounds: the      *)
(* loop is "while True" and leaves only on a response that is not tool_use  *)
(* or on an exception.  The count of blocks received stops at MaxDecisions. *)

OracleRound(content) ==
    /\ cur_pc = "oracle"
    /\ content # <<>>
    /\ decided' = IF decided + Len(content) <= MaxDecisions
                  THEN decided + Len(content) ELSE MaxDecisions
    /\ blocks' = content
    /\ tool_results' = <<>>
    /\ cur_pc' = "dispatch"
    /\ UNCHANGED <<stores, ret, cur_task, cur_buffer, writers, running>>

LiveDecisions ==
    {[name |-> "promote_to_canon",
      input |-> [entry_id |-> <<"e1">>, namespace |-> <<"facts">>, key |-> <<"X">>,
                 confidence |-> 8]],
     [name |-> "dismiss_buffer_entry",
      input |-> [entry_id |-> <<"e2">>, reason |-> <<"r1">>]]}
    \cup OtherDecisions

LiveResponses == SeqsUpTo(LiveDecisions, MaxDecisions)

\* a step of the running curation: the oracle answers, or a handler returns
CurationStep ==
    \/ \E content \in LiveResponses : OracleRound(content)
    \/ \E r \in StopReasons : OracleStop(r)
    \/ OracleRaises
    \/ Promote
    \/ Dismiss
    \/ UnknownTool

NextLive ==
    \/ \E w \in BatchBufferWrites : WriteToBuffer(w[1], <<"research">>, <<"T1">>, w[2])
    \/ CurateTask(<<"T1">>)
    \/ \E content \in LiveResponses : OracleRound(content)
    \/ \E r \in StopReasons : OracleStop(r)
    \/ OracleRaises
    \/ Promote
    \/ Dismiss
    \/ UnknownTool

\* every oracle call comes back and every handler returns
SpecLive == Init /\ [][NextLive]_vars /\ WF_vars(CurationStep)

----------------------------------------------------------------------------
(* Specialist agents next to the orchestrator's Canon paths: the tool calls  *)
(* a specialist can receive, the tool names of the orchestrator and of the  *)
(* curator among them                                                      *)

AgentToolInputs ==
    {<<"spawn_sub_agent", [agent_type |-> <<"code">>]>>,
     <<"web_search", [query |-> <<"q">>]>>,
     <<"write_to_buffer", [claim |-> <<"X=5">>, source |-> <<"web_search">>]>>,
     <<"write_to_scratch", [note |-> <<"n1">>]>>,
     <<"write_to_task_memory", [key |-> <<"k1">>, value |-> <<"v1">>]>>,
     <<"write_to_canon",
       [namespace |-> <<"facts">>, key |-> <<"X">>, content |-> <<"X=6">>]>>,
     <<"promote_to_canon",
       [entry_id |-> <<"e1">>, namespace |-> <<"facts">>, key |-> <<"X">>,
        confidence |-> 8]>>,
     <<"run_memory_curator", [task_id |-> <<"T1">>]>>}

\* <<tool name, tool input, depth, has_memory, entry id>>: the depth is varied
\* for the tool that reads it and the store is absent for tools that test it
AgentToolCalls ==
    {<<c[1], c[2], d, TRUE, (<<"e1">>)>> : c \in AgentToolInputs, d \in {1}}
    \cup {<<c[1], c[2], MAX_DEPTH, TRUE, (<<"e1">>)>> :
            c \in {x \in AgentToolInputs : x[1] = "spawn_sub_agent"}}
    \cup {<<c[1], c[2], 1, FALSE, (<<"e1">>)>> :
            c \in {x \in AgentToolInputs :
                        x[1] \in {"write_to_buffer", "write_to_scratch",
                                  "spawn_sub_agent"}}}

SpecialistStep ==
    \/ \E call \in AgentToolCalls :
            SpecialistDispatch(call[1], call[2], <<"research">>, call[3], <<"T1">>,
                               call[4], call[5])
    \/ SpecialistReturns(<<"research">>, <<"T1">>, TRUE)

NextAgents ==
    \/ SpecialistStep
    \/ \E inp \in CanonInputs : WriteToCanon(inp)
    \/ CurateTask(<<"T1">>)
    \/ \E content \in Responses : OracleToolUse(content)
    \/ \E r \in StopReasons : OracleStop(r)
    \/ OracleRaises
    \/ Promote
    \/ \E d \in DisputeIds : FlagConflict(d)
    \/ Dismiss
    \/ UnknownTool

SpecAgents == Init /\ [][NextAgents]_vars

----------------------------------------------------------------------------
(* The tree of callers: run() of an orchestrator or a specialist is on the  *)
(* stack from its call to its return, and a spawn handler runs the agent it *)
(* creates before it returns.                                               *)

MAX_ORCHESTRATOR_DEPTH == 3

MsgMaxOrchestratorDepth ==
    <<"Maximum orchestrator depth reached. Use specialist agents directly.">>

Top == running[Len(running)]

Enter(kind, type, depth) ==
    running' = Append(running, [kind |-> kind, type |-> type, depth |-> depth])

\* the tool list an agent passes to the oracle is not empty; without a tool
\* list a response holds no tool_use block
ToolsOffered(agent) ==
    agent.kind = "orchestrator" => agent.depth < MAX_ORCHESTRATOR_DEPTH

\* main: OrchestratorAgent().run(task); a top-level run opens a new task
OrchestratorRun(task_id) ==
    /\ cur_pc = "idle"
    /\ running = <<>>
    /\ Enter("orchestrator", <<"orchestrator">>, 0)
    /\ tasks' = Put(tasks, task_id, NewTask(task_id, <<"prompt">>))
    /\ ret' = NoReturn
    /\ UNCHANGED <<canon, buffer_file, disputes, scratch, curator, writers>>

SpawnSubOrchestrator ==
    /\ cur_pc = "idle"
    /\ running # <<>>
    /\ Top.kind = "orchestrator"
    /\ ToolsOffered(Top)
    /\ IF Top.depth >= MAX_ORCHESTRATOR_DEPTH
       THEN ret' = MsgMaxOrchestratorDepth /\ UNCHANGED running
       ELSE ret' = NoReturn /\ Enter("orchestrator", <<"orchestrator">>, Top.depth + 1)
    /\ UNCHANGED <<stores, curator, writers>>

\* _dispatch_tool of the orchestrator for research_agent, code_agent, ...
DispatchSpecialist(agent_type) ==
    /\ cur_pc = "idle"
    /\ running # <<>>
    /\ Top.kind = "orchestrator"
    /\ ToolsOffered(Top)
    /\ Enter("specialist", agent_type, Top.depth + 1)
    /\ ret' = NoReturn
    /\ UNCHANGED <<stores, curator, writers>>

\* _spawn without its depth test
SpawnSubAgentUnchecked(input_data) ==
    /\ cur_pc = "idle"
    /\ running # <<>>
    /\ Top.kind = "specialist"
    /\ Get(input_data, "agent_type", <<>>) \in SpecialistTypes
    /\ ret' = NoReturn
    /\ Enter("specialist", Get(input_data, "agent_type", <<>>), Top.depth + 1)
    /\ UNCHANGED <<stores, curator, writers>>

\* the spawn_sub_agent handler of a specialist up to the sub-agent's run();
\* the agent types requested here are ones create_specialist knows
SpawnSubAgent(input_data) ==
    /\ cur_pc = "idle"
    /\ running # <<>>
    /\ Top.kind = "specialist"
    /\ Get(input_data, "agent_type", <<>>) \in SpecialistTypes
    /\ IF Top.depth >= MAX_DEPTH
       THEN ret' = MsgMaxDepth /\ UNCHANGED running
       ELSE /\ ret' = NoReturn
            /\ Enter("specialist", Get(input_data, "agent_type", <<>>), Top.depth + 1)
    /\ UNCHANGED <<stores, curator, writers>>

\* the end of run(): a specialist and the top-level orchestrator save their
\* text as agent output, a sub-orchestrator does not
AgentReturns(task_id) ==
    /\ cur_pc = "idle"
    /\ running # <<>>
    /\ running' = SubSeq(running, 1, Len(running) - 1)
    /\ tasks' = IF Top.kind = "specialist" \/ Top.depth = 0
                THEN Put(tasks, task_id,
                         write_agent_output(
                            ReadTask(tasks, task_id, [agent_outputs |-> EmptyMap]),
                            Top.type, OracleText))
                ELSE tasks
    /\ ret' = OracleText
    /\ UNCHANGED <<canon, buffer_file, disputes, scratch, curator, writers>>

SpawnRequests == {[agent_type |-> <<"research">>], [agent_type |-> <<"code">>]}

NextDepth ==
    \/ OrchestratorRun(<<"T1">>)
    \/ SpawnSubOrchestrator
    \/ \E a \in {<<"research">>, <<"code">>} : DispatchSpecialist(a)
    \/ \E req \in SpawnRequests : SpawnSubAgent(req)
    \/ AgentReturns(<<"T1">>)

SpecDepth == Init /\ [][NextDepth]_vars

----------------------------------------------------------------------------
(* The Canon over the life of its directory: every start of the program     *)
(* constructs a MemoryStore over the files the earlier runs left            *)

\* MemoryStore.__init__ over an existing memory/ directory
Construct ==
    /\ cur_pc = "idle"
    /\ canon' = SeedCanon(canon)
    /\ ret' = NoReturn
    /\ UNCHANGED <<buffer_file, disputes, tasks, scratch, curator, writers, running>>

SeedKeys == {EntryId(<<"identity">>, <<"system">>), EntryId(<<"standards">>, <<"memory_rules">>)}

CanonNamespaces ==
    {<<>>, <<"facts">>, <<"facts", "2">>, <<"identity">>, <<"decisions">>,
     <<"facts", "/", "X">>, <<"facts", "/", "X", "Y">>}

CanonWrites ==
    {[namespace |-> <<"facts">>, key |-> <<"X">>, content |-> <<"X=5">>],
     [namespace |-> <<"facts">>, key |-> <<"X", "Y">>, content |-> <<"XY=1">>, confidence |-> 6],
     [namespace |-> <<"facts", "2">>, key |-> <<"X">>, content |-> <<"X=7">>],
     [namespace |-> <<"identity">>, key |-> <<"system">>, content |-> <<"edited">>,
      source |-> <<"user">>],
     [namespace |-> <<"standards">>, key |-> <<"style">>, content |-> <<"plain">>],
     [content |-> <<"bare">>]}

NextCanon ==
    \/ Construct
    \/ \E inp \in CanonWrites : WriteToCanon(inp)

SpecCanon == Init /\ [][NextCanon]_vars

----------------------------------------------------------------------------
(* The Task Memory of two tasks, one whole call per step                    *)

\* init_task that leaves the document of an initialised task alone
InitTaskOnce(task_id, prompt) ==
    /\ cur_pc = "idle"
    /\ tasks' = IF task_id \in DOMAIN tasks /\ "prompt" \in DOMAIN tasks[task_id]
                THEN tasks
                ELSE Put(tasks, task_id, NewTask(task_id, prompt))
    /\ ret' = NoReturn
    /\ UNCHANGED <<canon, buffer_file, disputes, scratch, curator, writers, running>>

\* OrchestratorAgent.run, top level: a new task id and init_task
InitTask(task_id, prompt) ==
    /\ cur_pc = "idle"
    /\ tasks' = Put(tasks, task_id, NewTask(task_id, prompt))
    /\ ret' = NoReturn
    /\ UNCHANGED <<canon, buffer_file, disputes, scratch, curator, writers, running>>

WriteAgentOutput(task_id, agent, output) ==
    /\ cur_pc = "idle"
    /\ tasks' = Put(tasks, task_id,
                    write_agent_output(
                        ReadTask(tasks, task_id, [agent_outputs |-> EmptyMap]),
                        agent, output))
    /\ ret' = output
    /\ UNCHANGED <<canon, buffer_file, disputes, scratch, curator, writers, running>>

LedgerArtifacts ==
    {[key |-> <<"k1">>, value |-> <<"v1">>], [key |-> <<"k1">>, value |-> <<"v2">>],
     [key |-> <<"k2">>, value |-> <<"v1">>]}

LedgerOutputs ==
    {<<(<<"research">>), (<<"o1">>)>>, <<(<<"research">>), (<<"o2">>)>>,
     <<(<<"orchestrator">>), (<<"o1">>)>>}

Prompts == {<<"prompt">>, <<"prompt2">>}

NextLedger ==
    \/ \E t \in TaskIds, p \in Prompts : InitTask(t, p)
    \/ \E t \in TaskIds, inp \in LedgerArtifacts : WriteToTaskMemory(inp, t)
    \/ \E t \in TaskIds, o \in LedgerOutputs : WriteAgentOutput(t, o[1], o[2])

SpecLedger == Init /\ [][NextLedger]_vars

----------------------------------------------------------------------------
(* The Buffer log driven through the store's own methods, one whole call    *)
(* per step                                                                *)

MarkBufferPromoted(entry_id) ==
    /\ cur_pc = "idle"
    /\ buffer_file' = mark_buffer_promoted(read_jsonl(buffer_file), entry_id)
    /\ ret' = NoReturn
    /\ UNCHANGED <<canon, disputes, tasks, scratch, curator, writers, running>>

MarkBufferDismissed(entry_id) ==
    /\ cur_pc = "idle"
    /\ buffer_file' = mark_buffer_dismissed(read_jsonl(buffer_file), entry_id)
    /\ ret' = NoReturn
    /\ UNCHANGED <<canon, disputes, tasks, scratch, curator, writers, running>>

NextStore ==
    \/ \E inp \in BufferInputs, a \in AgentTypes, t \in TaskIds, e \in EntryIds :
            WriteToBuffer(inp, a, t, e)
    \/ \E e \in EntryIds \cup {UnknownId} : MarkBufferPromoted(e)
    \/ \E e \in EntryIds \cup {UnknownId} : MarkBufferDismissed(e)

SpecStore == Init /\ [][NextStore]_vars

----------------------------------------------------------------------------
(* get_context: the text an agent is given before it starts.  The text is   *)
(* the sequence of its tokens; "\n" and "\n\n" are tokens of their own.     *)
(* The per-line character budgets ([:400], [:300], [:200]) are longer than  *)
(* every value written here and cut nothing; the rule characters of the     *)
(* section headers are written as hyphens.                                  *)

DefaultMaxBuffer == 8
DefaultMaxScratch == 5
CanonSliceCap == 10

NL == <<"\n">>
TaskHeader == <<"-- TASK MEMORY (mission artifacts) --">>
CanonHeader == <<"-- CANON (verified truth - trust fully) --">>
BufferHeader == <<"-- BUFFER (TENTATIVE - unverified, do NOT treat as truth) --">>
ScratchHeader == <<"-- SCRATCH (your own notes) --">>

\* the orders in which the keys of a JSON object can come back from the file:
\* the order of insertion, which the mappings of this module do not record
Orders(keys) ==
    {o \in [1..Cardinality(keys) -> keys] :
        \A i, j \in 1..Cardinality(keys) : o[i] = o[j] => i = j}

\* list[:n] for n >= 0
FirstN(list, n) == SubSeq(list, 1, IF n < Len(list) THEN n ELSE Len(list))

LastNFromFront(list, n) == SubSeq(list, 1, IF n < Len(list) THEN n ELSE Len(list))

\* list[-n:]: the last n items for n > 0, the whole list for n = 0, and the
\* list without its first -n items for n < 0
LastN(list, n) ==
    LET skip == IF n > 0
                THEN (IF n < Len(list) THEN Len(list) - n ELSE 0)
                ELSE (IF -n < Len(list) THEN -n ELSE Len(list))
    IN  SubSeq(list, skip + 1, Len(list))

RECURSIVE JoinText(_, _)
JoinText(parts, sep) ==
    IF parts = <<>> THEN <<>>
    ELSE IF Len(parts) = 1 THEN parts[1]
    ELSE parts[1] \o sep \o JoinText(Tail(parts), sep)

\* f"{confidence:.1f}" of a confidence counted in tenths
ConfText(confidence) ==
    <<ToString(confidence \div 10), ".", ToString(confidence % 10)>>

ArtifactLine(k, v) == <<"  [">> \o k \o <<"] ">> \o v.value
OutputLine(agent, out) == <<"  [output:">> \o agent \o <<"] ">> \o out
CanonLine(k, entry) == <<"  [">> \o k \o <<"] ">> \o entry.content
BufferLine(entry) ==
    <<"  [tentative|">> \o entry.agent \o <<"|conf:">> \o ConfText(entry.confidence)
        \o <<"] ">> \o entry.claim
ScratchLine(item) == <<"  - ">> \o item.note

\* section 1; the result is the list of sections it adds
TaskSection(task, artifact_order, output_order) ==
    LET artifacts == Get(task, "artifacts", EmptyMap)
        prior_outputs == Get(task, "agent_outputs", EmptyMap)
    IN  IF DOMAIN artifacts = {} /\ DOMAIN prior_outputs = {}
        THEN <<>>
        ELSE <<JoinText(<<TaskHeader>>
                \o [i \in 1..Len(artifact_order) |->
                        ArtifactLine(artifact_order[i], artifacts[artifact_order[i]])]
                \o [i \in 1..Len(output_order) |->
                        OutputLine(output_order[i], prior_outputs[output_order[i]])],
                NL)>>

\* the keys of read_canon() that the namespace list lets through; None and
\* the empty list let every key through
CanonSlice(data, canon_namespaces) ==
    IF canon_namespaces = {}
    THEN DOMAIN data
    ELSE {k \in DOMAIN data : \E ns \in canon_namespaces : StartsWith(k, ns)}

\* section 2
CanonSection(data, canon_order) ==
    IF canon_order = <<>>
    THEN <<>>
    ELSE LET shown == FirstN(canon_order, CanonSliceCap)
         IN  <<JoinText(<<CanonHeader>>
                \o [i \in 1..Len(shown) |-> CanonLine(shown[i], data[shown[i]])],
                NL)>>

\* section 3
BufferSection(file, task_id, max_buffer) ==
    LET Live(r) == ~r.dismissed
        buffer == SelectSeq(read_buffer_task(file, task_id, FALSE), Live)
        shown == LastN(buffer, max_buffer)
    IN  IF buffer = <<>>
        THEN <<>>
        ELSE <<JoinText(<<BufferHeader>>
                \o [i \in 1..Len(shown) |-> BufferLine(shown[i])], NL)>>

\* section 4
ScratchSection(files, agent_type, task_id, max_scratch) ==
    LET notes == read_scratch(files, agent_type, task_id)
        shown == LastN(notes, max_scratch)
    IN  IF notes = <<>>
        THEN <<>>
        ELSE <<JoinText(<<ScratchHeader>>
                \o [i \in 1..Len(shown) |-> ScratchLine(shown[i])], NL)>>

ContextHeader(task_id, agent_type) ==
    <<"[Memory context for task ">> \o task_id \o <<" | agent: ">> \o agent_type
        \o <<"]">>

ContextText(task_id, agent_type, sections) ==
    IF sections = <<>>
    THEN <<>>
    ELSE ContextHeader(task_id, agent_type) \o NL \o JoinText(sections, <<"\n\n">>)

\* get_context that also empties the caller's scratch file
GetContextClearing(task_id, agent_type, canon_namespaces, max_buffer, max_scratch, canon_order) ==
    /\ cur_pc = "idle"
    /\ ret' = ContextText(task_id, agent_type,
                    ScratchSection(scratch, agent_type, task_id, max_scratch))
    /\ scratch' = Put(scratch, ScratchPath(agent_type, task_id), <<>>)
    /\ UNCHANGED <<canon, buffer_file, disputes, tasks, curator, writers, running>>

\* canon_order is the order of the selected keys in canon.json
GetContext(task_id, agent_type, canon_namespaces, max_buffer, max_scratch, canon_order) ==
    /\ cur_pc = "idle"
    /\ UNCHANGED <<stores, curator, writers, running>>
    /\ canon_order \in Orders(CanonSlice(canon, canon_namespaces))
    /\ LET task == ReadTask(tasks, task_id, EmptyMap)
       IN  \E artifact_order \in Orders(DOMAIN Get(task, "artifacts", EmptyMap)),
              output_order \in Orders(DOMAIN Get(task, "agent_outputs", EmptyMap)) :
                ret' = ContextText(task_id, agent_type,
                            TaskSection(task, artifact_order, output_order)
                            \o CanonSection(canon, canon_order)
                            \o BufferSection(buffer_file, task_id, max_buffer)
                            \o ScratchSection(scratch, agent_type, task_id, max_scratch))

\* clear_scratch: the file is removed when it exists
ClearScratch(agent_type, task_id) ==
    /\ cur_pc = "idle"
    /\ scratch' = [f \in DOMAIN scratch \ {ScratchPath(agent_type, task_id)}
                        |-> scratch[f]]
    /\ ret' = NoReturn
    /\ UNCHANGED <<canon, buffer_file, disputes, tasks, curator, writers, running>>

\* the order of the selected keys in a canon.json that holds the seed entries,
\* which _seed_canon_if_empty writes identity/system first
SeededOrder(canon_namespaces) ==
    LET Keep(k) == k \in CanonSlice(canon, canon_namespaces)
    IN  SelectSeq(<<EntryId(<<"identity">>, <<"system">>),
                    EntryId(<<"standards">>, <<"memory_rules">>)>>, Keep)

\* (task_id, agent_type, canon_namespaces, max_buffer, max_scratch)
ContextCalls ==
    {<<(<<"T1">>), (<<"orchestrator">>), {}, DefaultMaxBuffer, DefaultMaxScratch>>,
     <<(<<"T1">>), (<<"research">>), {<<"identity">>, <<"standards">>, <<"facts">>}, DefaultMaxBuffer, DefaultMaxScratch>>,
     <<(<<"T2">>), (<<"research">>), {<<"identity">>, <<"standards">>, <<"facts">>}, DefaultMaxBuffer, DefaultMaxScratch>>,
     <<(<<"T1">>), (<<"code">>), {<<"identity">>, <<"standards">>, <<"decisions">>}, 1, 1>>}

\* (entry id, claim, task_id) of the write_to_buffer calls
ContextBufferWrites ==
    {<<(<<"e1">>), (<<"X=5">>), (<<"T1">>)>>, <<(<<"e2">>), (<<"X=6">>), (<<"T1">>)>>,
     <<(<<"e3">>), (<<"X=5">>), (<<"T2">>)>>}

\* (agent_type, task_id, note) of the write_to_scratch calls
ContextNotes ==
    {<<(<<"research">>), (<<"T1">>), (<<"n1">>)>>, <<(<<"code">>), (<<"T1">>), (<<"n2">>)>>,
     <<(<<"research">>), (<<"T2">>), (<<"n3">>)>>}

NextContext ==
    \/ \E c \in ContextCalls : GetContext(c[1], c[2], c[3], c[4], c[5], SeededOrder(c[3]))
    \/ \E w \in ContextBufferWrites :
            WriteToBuffer([claim |-> w[2]], <<"research">>, w[3], w[1])
    \/ MarkBufferPromoted(<<"e1">>)
    \/ MarkBufferDismissed(<<"e2">>)
    \/ \E n \in ContextNotes : WriteToScratch([note |-> n[3]], n[1], n[2])
    \/ \E n \in ContextNotes : ClearScratch(n[1], n[2])
    \/ WriteToTaskMemory([key |-> <<"k1">>, value |-> <<"v1">>], <<"T1">>)
    \/ WriteAgentOutput(<<"T1">>, <<"research">>, <<"o1">>)

SpecContext == Init /\ [][NextContext]_vars

----------------------------------------------------------------------------
(* Concurrent writers: each store method is a sequence of file reads and    *)
(* file writes, and the steps of different writers interleave.  No method   *)
(* takes a lock.                                                            *)

Free(w) == pc[w] \in {"idle", "done"} /\ loc[w].calls < MaxCalls

Goto(w, label, locals) ==
    /\ pc' = [pc EXCEPT ![w] = label]
    /\ loc' = [loc EXCEPT ![w] = locals]

Local(w, op, inp, data, result) ==
    [op |-> op, inp |-> inp, data |-> data, result |-> result, calls |-> loc[w].calls + 1]

\* write_canon, first half: data = self._read_json(canon_file, {})
WcRead(w, inp) ==
    /\ Free(w)
    /\ Goto(w, "wc_write", Local(w, "write_canon", inp, canon, NoReturn))
    /\ UNCHANGED <<stores, ret, curator, running>>

\* write_canon, second half: data[entry_id] = {...}; self._write_json(canon_file, data)
WcWrite(w) ==
    /\ pc[w] = "wc_write"
    /\ LET inp == loc[w].inp
           full_key == EntryId(inp.namespace, inp.key)
       IN  /\ canon' = write_canon(loc[w].data, inp.namespace, inp.key, inp.content,
                                   inp.source, inp.confidence, FALSE)
           /\ IF loc[w].op = "promote"
              THEN Goto(w, "mk_read", loc[w])
              ELSE Goto(w, "done", [loc[w] EXCEPT !.result = MsgWritten(full_key)])
    /\ UNCHANGED <<buffer_file, disputes, tasks, scratch, ret, curator, running>>

\* _promote: all_buffer = self.memory.read_buffer(); entry = next(...)
PrFind(w, inp) ==
    /\ Free(w)
    /\ LET found == FindEntry(read_buffer(buffer_file), inp.entry_id)
       IN  IF found = <<>>
           THEN Goto(w, "done", Local(w, "promote", inp, <<>>, MsgNotFound(inp.entry_id)))
           ELSE Goto(w, "pr_check",
                     Local(w, "promote",
                           [entry_id |-> inp.entry_id,
                            namespace |-> inp.namespace, key |-> inp.key,
                            content |-> found[1].claim,
                            source |-> <<"buffer:">> \o found[1].source
                                            \o <<"|curator_promoted">>,
                            confidence |-> inp.confidence],
                           <<>>, NoReturn))
    /\ UNCHANGED <<stores, ret, curator, running>>

\* _promote: existing = self.memory.read_canon(namespace); if full_key in existing
PrCheck(w) ==
    /\ pc[w] = "pr_check"
    /\ LET inp == loc[w].inp
           existing == read_canon(canon, inp.namespace)
           full_key == EntryId(inp.namespace, inp.key)
       IN  IF full_key \in DOMAIN existing
           THEN Goto(w, "done", [loc[w] EXCEPT !.result = MsgAlreadyExists(full_key)])
           ELSE Goto(w, "pr_write", loc[w])
    /\ UNCHANGED <<stores, ret, curator, running>>

\* _promote -> write_canon, first half
PrWcRead(w) ==
    /\ pc[w] = "pr_write"
    /\ Goto(w, "wc_write", [loc[w] EXCEPT !.data = canon])
    /\ UNCHANGED <<stores, ret, curator, running>>

\* _promote -> mark_buffer_promoted -> _rewrite_buffer, first half
PrMarkRead(w) ==
    /\ pc[w] = "mk_read"
    /\ Goto(w, "mk_write", [loc[w] EXCEPT !.data = read_jsonl(buffer_file)])
    /\ UNCHANGED <<stores, ret, curator, running>>

\* mark_buffer_promoted / mark_buffer_dismissed -> _rewrite_buffer, first half
MkRead(w, op, entry_id) ==
    /\ Free(w)
    /\ op \in {"mark_buffer_promoted", "mark_buffer_dismissed"}
    /\ Goto(w, "mk_write",
            Local(w, op, [entry_id |-> entry_id], read_jsonl(buffer_file), NoReturn))
    /\ UNCHANGED <<stores, ret, curator, running>>

\* _rewrite_buffer, second half: buf_file.write_text(...)
MkWrite(w) ==
    /\ pc[w] = "mk_write"
    /\ LET inp == loc[w].inp
       IN  /\ buffer_file' =
                IF loc[w].op = "mark_buffer_dismissed"
                THEN mark_buffer_dismissed(loc[w].data, inp.entry_id)
                ELSE mark_buffer_promoted(loc[w].data, inp.entry_id)
           /\ Goto(w, "done",
                   [loc[w] EXCEPT !.result =
                        IF loc[w].op = "promote"
                        THEN MsgPromoted(inp.entry_id, EntryId(inp.namespace, inp.key),
                                         inp.confidence)
                        ELSE NoReturn])
    /\ UNCHANGED <<canon, disputes, tasks, scratch, ret, curator, running>>

\* add_to_buffer: one append to buffer.jsonl
AddToBuffer(w, claim, source, agent, task_id, entry_id) ==
    /\ Free(w)
    /\ Len(buffer_file) < MaxBuffer
    /\ buffer_file' = append_jsonl(buffer_file,
            BufferRecord(entry_id, claim, source, agent, task_id, DefaultBufferConfidence))
    /\ Goto(w, "done", Local(w, "add_to_buffer", [entry_id |-> entry_id], <<>>, entry_id))
    /\ UNCHANGED <<canon, disputes, tasks, scratch, ret, curator, running>>

\* write_task_memory / write_agent_output, first half: data = self._read_json(path, ...)
TaskRead(w, op, task_id, key, value) ==
    /\ Free(w)
    /\ op \in {"write_task_memory", "write_agent_output"}
    /\ Goto(w, "task_write",
            Local(w, op, [task_id |-> task_id, key |-> key, value |-> value],
                  ReadTask(tasks, task_id,
                           IF op = "write_task_memory"
                           THEN [artifacts |-> EmptyMap]
                           ELSE [agent_outputs |-> EmptyMap]),
                  NoReturn))
    /\ UNCHANGED <<stores, ret, curator, running>>

\* write_task_memory / write_agent_output, second half: self._write_json(path, data)
TaskWrite(w) ==
    /\ pc[w] = "task_write"
    /\ LET inp == loc[w].inp
       IN  tasks' = Put(tasks, inp.task_id,
                        IF loc[w].op = "write_task_memory"
                        THEN write_task_memory(loc[w].data, inp.key, inp.value)
                        ELSE write_agent_output(loc[w].data, inp.key, inp.value))
    /\ Goto(w, "done", loc[w])
    /\ UNCHANGED <<canon, buffer_file, disputes, scratch, ret, curator, running>>

ConcCanonInputs ==
    {[namespace |-> <<"facts">>, key |-> kc[1], content |-> kc[2],
      source |-> <<"orchestrator">>, confidence |-> DefaultCanonConfidence] :
        kc \in {<<(<<"X">>), (<<"X=5">>)>>, <<(<<"X">>), (<<"X=6">>)>>,
                <<(<<"Y">>), (<<"Y=1">>)>>}}

ConcPromoteInputs ==
    {[entry_id |-> e, namespace |-> <<"facts">>, key |-> <<"X">>, confidence |-> 8] :
        e \in EntryIds}

ConcMarks ==
    {<<"mark_buffer_promoted", (<<"e1">>)>>, <<"mark_buffer_dismissed", (<<"e2">>)>>}

NextConc ==
    \E w \in Writers :
        \/ \E inp \in ConcCanonInputs : WcRead(w, inp)
        \/ WcWrite(w)
        \/ \E inp \in ConcPromoteInputs : PrFind(w, inp)
        \/ PrCheck(w)
        \/ PrWcRead(w)
        \/ PrMarkRead(w)
        \/ \E m \in ConcMarks : MkRead(w, m[1], m[2])
        \/ MkWrite(w)
        \/ \E e \in EntryIds :
                AddToBuffer(w, <<"X=5">>, <<"web_search">>, <<"research">>, <<"T1">>, e)

SpecConc == Init /\ [][NextConc]_vars

ConcTaskWrites ==
    {<<"write_task_memory", (<<"k1">>)>>, <<"write_task_memory", (<<"k2">>)>>,
     <<"write_agent_output", (<<"research">>)>>, <<"write_agent_output", (<<"code">>)>>}

NextLedgerConc ==
    \E w \in Writers :
        \/ \E m \in ConcTaskWrites : TaskRead(w, m[1], <<"T1">>, m[2], <<"v1">>)
        \/ TaskWrite(w)

SpecLedgerConc == Init /\ [][NextLedgerConc]_vars

----------------------------------------------------------------------------
(* Properties *)

Log == read_buffer(buffer_file)

InLog(entry_id) == \E i \in 1..Len(Log) : Log[i].id = entry_id

FactsX == EntryId(<<"facts">>, <<"X">>)

Succeeded(w) ==
    /\ pc[w] = "done"
    /\ \/ loc[w].op = "write_canon"
       \/ /\ loc[w].op = "promote"
          /\ loc[w].result = MsgPromoted(loc[w].inp.entry_id,
                                         EntryId(loc[w].inp.namespace, loc[w].inp.key),
                                         loc[w].inp.confidence)

TargetKey(w) == EntryId(loc[w].inp.namespace, loc[w].inp.key)

SawAbsent(w) ==
    loc[w].op = "write_canon" => TargetKey(w) \notin DOMAIN loc[w].data

\* C1: an entry that is in the Canon keeps its content, source and confidence
\* in every later state, whichever handler writes to its key.
C1_NoOverwrite ==
    [][\A k \in DOMAIN canon :
            /\ k \in DOMAIN canon'
            /\ canon'[k].content = canon[k].content
            /\ canon'[k].source = canon[k].source
            /\ canon'[k].confidence = canon[k].confidence]_vars

\* C2: no Buffer entry is both promoted and dismissed.
C2_AtMostOneTerminal ==
    \A i \in 1..Len(Log) : ~(Log[i].promoted /\ Log[i].dismissed)

\* C3: a promote decision for an entry of the log whose target key is already
\* in the Canon changes neither the Canon, the Buffer nor the disputes, and its
\* result is the message that points to flag_conflict.
C3_ConflictSafety ==
    [][(/\ cur_pc = "dispatch"
        /\ blocks # <<>>
        /\ Head(blocks).name = "promote_to_canon"
        /\ InLog(Head(blocks).input.entry_id)
        /\ EntryId(Head(blocks).input.namespace, Head(blocks).input.key) \in DOMAIN canon)
       => /\ canon' = canon
          /\ buffer_file' = buffer_file
          /\ disputes' = disputes
          /\ tool_results' =
                Append(tool_results,
                       MsgAlreadyExists(EntryId(Head(blocks).input.namespace,
                                                Head(blocks).input.key)))]_vars

C3_Witness ==
    /\ tool_results # <<>>
    /\ tool_results[Len(tool_results)] = MsgAlreadyExists(FactsX)
    /\ \E i \in 1..Len(Log) : ~Log[i].promoted /\ ~Log[i].dismissed

\* C4: of two writers that each wrote or promoted to the same key, each having
\* found the key absent, at most one is told that it succeeded.
C4_ExactlyOneWinner ==
    \A p, q \in Writers :
        (/\ p # q
         /\ Succeeded(p) /\ Succeeded(q)
         /\ TargetKey(p) = TargetKey(q)
         /\ SawAbsent(p) /\ SawAbsent(q))
        => FALSE

\* C5: every record of the Buffer log is still in the log, at its position,
\* after every step of every writer.
C5_NoLostAppend ==
    [][\A i \in 1..Len(Log) :
            /\ i <= Len(read_buffer(buffer_file'))
            /\ read_buffer(buffer_file')[i].id = Log[i].id]_vars

TaskField(w) ==
    IF loc[w].op = "write_task_memory" THEN "artifacts" ELSE "agent_outputs"

TaskKeyPresent(w) ==
    /\ loc[w].inp.task_id \in DOMAIN tasks
    /\ loc[w].inp.key \in
            DOMAIN Get(tasks[loc[w].inp.task_id], TaskField(w), EmptyMap)

\* C6: when two writers have each completed a Task Memory write on the same
\* task under different keys, both keys are in the task document.
C6_BothKeysPresent ==
    \A p, q \in Writers :
        (/\ p # q
         /\ pc[p] = "done" /\ pc[q] = "done"
         /\ loc[p].inp.task_id = loc[q].inp.task_id
         /\ <<loc[p].op, loc[p].inp.key>> # <<loc[q].op, loc[q].inp.key>>)
        => TaskKeyPresent(p) /\ TaskKeyPresent(q)

SnapshotHas(w, entry_id) ==
    \E i \in 1..Len(loc[w].data) : loc[w].data[i].id = entry_id

\* C7: when mark_buffer_promoted(e1) and mark_buffer_dismissed(e2) have both
\* completed on two different entries, both of them in the log when either
\* call read it, e1 is promoted and e2 is dismissed.
C7_BothFlagsSet ==
    \A p, q \in Writers :
        (/\ pc[p] = "done" /\ loc[p].op = "mark_buffer_promoted"
         /\ pc[q] = "done" /\ loc[q].op = "mark_buffer_dismissed"
         /\ loc[p].inp.entry_id # loc[q].inp.entry_id
         /\ \A w \in {p, q} :
                /\ SnapshotHas(w, loc[p].inp.entry_id)
                /\ SnapshotHas(w, loc[q].inp.entry_id))
        => /\ \E i \in 1..Len(Log) :
                    Log[i].id = loc[p].inp.entry_id /\ Log[i].promoted
           /\ \E i \in 1..Len(Log) :
                    Log[i].id = loc[q].inp.entry_id /\ Log[i].dismissed

\* C8: when two writers have each completed write_canon on two different keys,
\* both keys are in the Canon.
C8_BothKeysStored ==
    \A p, q \in Writers :
        (/\ p # q
         /\ pc[p] = "done" /\ loc[p].op = "write_canon"
         /\ pc[q] = "done" /\ loc[q].op = "write_canon"
         /\ TargetKey(p) # TargetKey(q))
        => TargetKey(p) \in DOMAIN canon /\ TargetKey(q) \in DOMAIN canon

\* C9: mark_buffer_promoted and mark_buffer_dismissed with an id that no record
\* of the log has complete and leave the records of the log as they were.
C9_TolerantMarks ==
    [][\A e \in EntryIds \cup {UnknownId} :
            (~InLog(e) /\ (MarkBufferPromoted(e) \/ MarkBufferDismissed(e)))
            => read_buffer(buffer_file') = Log]_vars

C9_Witness ==
    /\ ret = NoReturn
    /\ Len(Log) = 2
    /\ \A i \in 1..Len(Log) : ~Log[i].promoted /\ ~Log[i].dismissed

NoPending(task_id) ==
    \A i \in 1..Len(Log) :
        Log[i].task_id = task_id => (Log[i].promoted \/ Log[i].dismissed)

\* C10: curate_task on a task none of whose entries is pending returns the
\* no-entries summary at once, without a call of the oracle, and changes no store.
C10_EmptyInputNoOp ==
    [][\A t \in TaskIds :
            (NoPending(t) /\ CurateTask(t))
            => /\ ret' = MsgNoEntries(t)
               /\ cur_pc' = "idle"
               /\ UNCHANGED stores]_vars

C10_Witness ==
    /\ cur_pc = "idle"
    /\ ret = MsgNoEntries(<<"T1">>)
    /\ \E i \in 1..Len(Log) : Log[i].task_id = <<"T1">>
    /\ tasks # EmptyMap
    /\ scratch # EmptyMap

TaskView(file, task_id) ==
    LET matching == FilterTask(read_buffer(file), task_id)
    IN  [i \in 1..Len(matching) |-> <<matching[i].id, matching[i].claim>>]

\* C11: for every task filter, the entries read_buffer returns after a step are
\* the entries it returned before the step, in the same order, followed by the
\* entry the step appended if it appended one; a mark rewrite keeps the order.
C11_AppendOrder ==
    [][\A t \in TaskIds :
            LET old == TaskView(buffer_file, t)
                new == TaskView(buffer_file', t)
            IN  /\ Len(old) <= Len(new)
                /\ Len(new) <= Len(old) + 1
                /\ SubSeq(new, 1, Len(old)) = old
                /\ (\E e \in EntryIds \cup {UnknownId} :
                        MarkBufferPromoted(e) \/ MarkBufferDismissed(e))
                   => new = old]_vars

C11_Witness ==
    /\ Len(TaskView(buffer_file, <<"T1">>)) = 2
    /\ TaskView(buffer_file, <<"T1">>)[1][1] = <<"e1">>
    /\ TaskView(buffer_file, <<"T1">>)[2][1] = <<"e2">>
    /\ Log[1].promoted
    /\ Log[2].dismissed

LastResult == tool_results[Len(tool_results)]

Pends(r) == ~r.promoted /\ ~r.dismissed

\* C13: a flag_conflict decision, whether or not its entry is in the log,
\* appends one unresolved dispute that names the decision's buffer id and canon
\* id, returns the dispute message, and changes neither the Canon nor any
\* record of the Buffer.
C13_FlagConflictRecords ==
    [][(Dispatching("flag_conflict") /\ Len(disputes) < MaxDisputes)
       => /\ Len(disputes') = Len(disputes) + 1
          /\ SubSeq(disputes', 1, Len(disputes)) = disputes
          /\ disputes'[Len(disputes')].buffer_id = Head(blocks).input.buffer_id
          /\ disputes'[Len(disputes')].canon_id = Head(blocks).input.canon_id
          /\ disputes'[Len(disputes')].resolved = FALSE
          /\ tool_results' =
                Append(tool_results, MsgDispute(disputes'[Len(disputes')].id))
          /\ canon' = canon
          /\ buffer_file' = buffer_file]_vars

C13_Witness ==
    /\ tool_results # <<>>
    /\ LastResult = MsgDispute(<<"d1">>)
    /\ Len(disputes) = 1
    /\ disputes[1].buffer_id = <<"e1">>
    /\ disputes[1].canon_id = FactsX
    /\ \E i \in 1..Len(Log) : Log[i].id = <<"e1">> /\ Pends(Log[i])

\* C14: a dismiss decision sets dismissed on the records that have its entry
\* id and on no other record, returns the dismissed message also when no record
\* has that id, and changes neither the Canon nor the disputes.
C14_DismissFrame ==
    [][Dispatching("dismiss_buffer_entry")
       => /\ Len(read_buffer(buffer_file')) = Len(Log)
          /\ \A i \in 1..Len(Log) :
                read_buffer(buffer_file')[i] =
                    [Log[i] EXCEPT !.dismissed =
                        Log[i].dismissed \/ Log[i].id = Head(blocks).input.entry_id]
          /\ tool_results' =
                Append(tool_results,
                       MsgDismissed(Head(blocks).input.entry_id,
                                    Head(blocks).input.reason))
          /\ cur_pc' \in {"dispatch", "oracle"}
          /\ canon' = canon
          /\ disputes' = disputes]_vars

C14_Witness ==
    /\ tool_results # <<>>
    /\ LastResult = MsgDismissed(<<"e1">>, <<"r1">>)
    /\ \E i \in 1..Len(Log) : Log[i].id = <<"e1">> /\ Log[i].dismissed
    /\ \E i \in 1..Len(Log) : Log[i].id # <<"e1">> /\ Pends(Log[i])

\* C16: a promote decision whose entry id no record of the log has returns the
\* not-found message, changes no store, and the loop goes on with the rest of
\* the response.
C16_PromoteUnknownEntry ==
    [][(/\ Dispatching("promote_to_canon")
        /\ ~InLog(Head(blocks).input.entry_id))
       => /\ UNCHANGED stores
          /\ tool_results' =
                Append(tool_results, MsgNotFound(Head(blocks).input.entry_id))
          /\ blocks' = Tail(blocks)
          /\ cur_pc' = IF Tail(blocks) = <<>> THEN "oracle" ELSE "dispatch"
          /\ cur_task' = cur_task]_vars

C16_Witness ==
    /\ tool_results # <<>>
    /\ LastResult = MsgNotFound(<<"e2">>)
    /\ cur_pc = "oracle"
    /\ \E i \in 1..Len(Log) : Pends(Log[i])
    /\ FactsX \notin DOMAIN canon

\* C18: a promote decision on a dismissed entry, and a dismiss decision on a
\* promoted entry, change no store.
C18_InvalidTransitionRejected ==
    [][(/\ cur_pc = "dispatch"
        /\ blocks # <<>>
        /\ Head(blocks).name \in {"promote_to_canon", "dismiss_buffer_entry"}
        /\ \E i \in 1..Len(Log) :
                /\ Log[i].id = Head(blocks).input.entry_id
                /\ \/ Head(blocks).name = "promote_to_canon" /\ Log[i].dismissed
                   \/ Head(blocks).name = "dismiss_buffer_entry" /\ Log[i].promoted)
       => UNCHANGED stores]_vars

\* C15: when a call of the oracle raises during curate_task, every entry the
\* call selected at its start is in the log as it was selected, still pending.
C15_OracleFailureUnchanged ==
    [][OracleRaises
       => \A i \in 1..Len(cur_buffer) :
            \E j \in 1..Len(Log) : Log[j] = cur_buffer[i] /\ Pends(Log[j])]_vars

Decision == Head(blocks)

ValidPromote ==
    /\ Dispatching("promote_to_canon")
    /\ InLog(Decision.input.entry_id)
    /\ EntryId(Decision.input.namespace, Decision.input.key) \notin DOMAIN canon

PromoteEffect ==
    LET inp == Decision.input
        full_key == EntryId(inp.namespace, inp.key)
    IN  /\ DOMAIN canon' = DOMAIN canon \cup {full_key}
        /\ \A k \in DOMAIN canon : canon'[k] = canon[k]
        /\ \E i \in 1..Len(Log) :
                Log[i].id = inp.entry_id /\ canon'[full_key].content = Log[i].claim
        /\ canon'[full_key].confidence = inp.confidence
        /\ Len(read_buffer(buffer_file')) = Len(Log)
        /\ \A i \in 1..Len(Log) :
                read_buffer(buffer_file')[i] =
                    [Log[i] EXCEPT !.promoted = Log[i].promoted \/ Log[i].id = inp.entry_id]

DismissEffect ==
    /\ Len(read_buffer(buffer_file')) = Len(Log)
    /\ \A i \in 1..Len(Log) :
            read_buffer(buffer_file')[i] =
                [Log[i] EXCEPT !.dismissed =
                    Log[i].dismissed \/ Log[i].id = Decision.input.entry_id]

FlagEffect ==
    /\ Len(disputes') = Len(disputes) + 1
    /\ disputes'[Len(disputes')].buffer_id = Decision.input.buffer_id
    /\ disputes'[Len(disputes')].canon_id = Decision.input.canon_id

\* C12: a promote decision for an entry of the log whose target key is not in
\* the Canon adds that one key to the Canon, with the entry's claim as content
\* and the decision's confidence, leaves every other Canon entry and the
\* disputes as they were, and sets promoted on the records with the entry's id
\* and on no other record.
C12_PromoteAddsEntry ==
    [][ValidPromote
       => /\ PromoteEffect
          /\ disputes' = disputes
          /\ tool_results' =
                Append(tool_results,
                       MsgPromoted(Decision.input.entry_id,
                                   EntryId(Decision.input.namespace, Decision.input.key),
                                   Decision.input.confidence))]_vars

C12_Witness ==
    /\ tool_results # <<>>
    /\ LastResult = MsgPromoted(<<"e2">>, FactsX, 8)
    /\ FactsX \in DOMAIN canon
    /\ canon[FactsX].content = <<"X=6">>
    /\ canon[FactsX].confidence = 8
    /\ Len(Log) = 2
    /\ Log[1].id = <<"e1">> /\ Pends(Log[1])
    /\ Log[2].id = <<"e2">> /\ Log[2].promoted

RejectionResults ==
    {MsgNotFound(e) : e \in EntryIds \cup {UnknownId}}
    \cup {MsgAlreadyExists(EntryId(<<"facts">>, k)) : k \in {<<"X">>, <<"Y">>}}

AfterRejection ==
    \E i \in 1..Len(tool_results) : tool_results[i] \in RejectionResults

\* C17: within one response, a promote decision that is rejected (unknown
\* entry or existing key) is followed by the dispatch of the next block, and
\* every decision dispatched after a rejection of the same response takes its
\* effect: a promote of a known entry to an absent key writes the Canon and
\* marks the entry, a dismiss marks the entry, a flag_conflict adds a dispute.
C17_DecisionIndependence ==
    [][/\ (/\ Dispatching("promote_to_canon")
           /\ ~ValidPromote
           /\ Tail(blocks) # <<>>)
          => /\ cur_pc' = "dispatch"
             /\ blocks' = Tail(blocks)
             /\ tool_results'[Len(tool_results')] \in RejectionResults
       /\ (AfterRejection /\ ValidPromote) => PromoteEffect
       /\ (AfterRejection /\ Dispatching("dismiss_buffer_entry")) => DismissEffect
       /\ (AfterRejection /\ Dispatching("flag_conflict") /\ Len(disputes) < MaxDisputes)
          => FlagEffect]_vars

C17_Witness ==
    /\ Len(tool_results) = 2
    /\ tool_results[1] = MsgNotFound(UnknownId)
    /\ tool_results[2] = MsgPromoted(<<"e1">>, FactsX, 8)
    /\ FactsX \in DOMAIN canon
    /\ \E i \in 1..Len(Log) : Log[i].id = <<"e1">> /\ Log[i].promoted

\* C19: a promote decision for an entry that is already promoted is rejected:
\* it changes no store and does not return the promoted message.
C19_AtMostOnePromotion ==
    [][(/\ Dispatching("promote_to_canon")
        /\ \E i \in 1..Len(Log) :
                Log[i].id = Decision.input.entry_id /\ Log[i].promoted)
       => /\ UNCHANGED stores
          /\ tool_results'[Len(tool_results')] \in RejectionResults]_vars

\* C20: no tool call dispatched by a specialist, and no end of a specialist's
\* run, changes the Canon, whatever the tool name; every step that changes the
\* Canon is the orchestrator's write_to_canon handler or a promote of the
\* curator.
C20_WriteRestriction ==
    [][/\ SpecialistStep => canon' = canon
       /\ canon' # canon
          => \/ \E inp \in CanonInputs : WriteToCanon(inp)
             \/ ValidPromote /\ Promote]_vars

C20_Witness ==
    /\ ret = MsgUnknownAgentTool("write_to_canon")
    /\ FactsX \in DOMAIN canon
    /\ canon[FactsX].content = <<"X=5">>
    /\ \E i \in 1..Len(Log) : Log[i].agent = <<"research">> /\ Log[i].promoted

IsSeed(entry, namespace, content) ==
    /\ entry.namespace = namespace
    /\ entry.content = content
    /\ entry.source = <<"system_init">>
    /\ entry.confidence = SeedConfidence
    /\ entry.confirmed_by_user

\* C21: the store constructed over an empty Canon holds exactly the entries
\* identity/system and standards/memory_rules, and every later construction,
\* over a Canon that has entries, leaves the Canon as it is.
C21_IdempotentSeeding ==
    /\ DOMAIN canon = SeedKeys
    /\ IsSeed(canon[EntryId(<<"identity">>, <<"system">>)], <<"identity">>, <<"hierarchy">>)
    /\ IsSeed(canon[EntryId(<<"standards">>, <<"memory_rules">>)], <<"standards">>, <<"rules">>)
    /\ [][(cur_pc = "idle" /\ ret' = NoReturn /\ DOMAIN canon # {}) => canon' = canon]_vars

C21_Witness ==
    /\ ret = NoReturn
    /\ canon[EntryId(<<"identity">>, <<"system">>)].content = <<"edited">>
    /\ EntryId(<<"facts">>, <<"X">>) \in DOMAIN canon

HasPrefix(k, prefix) ==
    /\ Len(prefix) <= Len(k)
    /\ k = prefix \o SubSeq(k, Len(prefix) + 1, Len(k))

\* C30: in every state, read_canon() is the whole Canon, and read_canon(ns) is
\* the Canon restricted to the keys of which ns is a prefix, the empty mapping
\* when there is none.
C30_ReadCanonPrefix ==
    \A ns \in CanonNamespaces :
        LET got == read_canon(canon, ns)
        IN  /\ DOMAIN got = {k \in DOMAIN canon : HasPrefix(k, ns)}
            /\ \A k \in DOMAIN got : got[k] = canon[k]
            /\ ns = <<>> => got = canon

C30_Witness ==
    /\ DOMAIN read_canon(canon, <<"facts">>) =
            {EntryId(<<"facts">>, <<"X">>), EntryId(<<"facts", "2">>, <<"X">>),
             EntryId(<<"facts">>, <<"X", "Y">>)}
    /\ DOMAIN read_canon(canon, <<"facts", "/", "X">>) =
            {EntryId(<<"facts">>, <<"X">>), EntryId(<<"facts">>, <<"X", "Y">>)}
    /\ read_canon(canon, <<"decisions">>) = EmptyMap

\* C22: when write_canon has returned to a writer, the key it wrote is in what
\* read_canon returns, with the content it wrote, in every later state.
C22_WrittenStays ==
    \A w \in Writers :
        (pc[w] = "done" /\ loc[w].op = "write_canon")
        => /\ TargetKey(w) \in DOMAIN read_canon(canon, <<>>)
           /\ canon[TargetKey(w)].content = loc[w].inp.content

\* C23: no two records of the Buffer log have the same id.
C23_UniqueIds ==
    \A i, j \in 1..Len(Log) : i # j => Log[i].id # Log[j].id

SelectedIds == {cur_buffer[i].id : i \in 1..Len(cur_buffer)}

\* C28: a promote decision of a curate_task call for an entry of the call's
\* task that the call did not select, because it was promoted or dismissed
\* before the call, changes neither the Canon nor the Buffer.
C28_SafeRetry ==
    [][(/\ Dispatching("promote_to_canon")
        /\ InLog(Decision.input.entry_id)
        /\ Decision.input.entry_id \notin SelectedIds
        /\ \A i \in 1..Len(Log) :
                Log[i].id = Decision.input.entry_id
                => Log[i].task_id = cur_task /\ ~Pends(Log[i]))
       => canon' = canon /\ buffer_file' = buffer_file]_vars

\* C29: every dispute names an entry that is in the Buffer log and a key that
\* is in the Canon.
C29_DisputeIntegrity ==
    \A i \in 1..Len(disputes) :
        /\ InLog(disputes[i].buffer_id)
        /\ disputes[i].canon_id \in DOMAIN canon

TaskDoc(docs, task_id) == IF task_id \in DOMAIN docs THEN docs[task_id] ELSE EmptyMap

Section(doc, field) == IF field \in DOMAIN doc THEN doc[field] ELSE EmptyMap

\* the document of task_id after the step is the one before it with entry k of
\* its section field set to v, and nothing else of any task document differs
Upserted(task_id, field, k, v) ==
    LET old == TaskDoc(tasks, task_id)
        new == TaskDoc(tasks', task_id)
    IN  /\ DOMAIN tasks' = DOMAIN tasks \cup {task_id}
        /\ \A t \in DOMAIN tasks \ {task_id} : tasks'[t] = tasks[t]
        /\ DOMAIN new = DOMAIN old \cup {field}
        /\ \A f \in DOMAIN old \ {field} : new[f] = old[f]
        /\ DOMAIN new[field] = DOMAIN Section(old, field) \cup {k}
        /\ new[field][k] = v
        /\ \A x \in DOMAIN Section(old, field) \ {k} : new[field][x] = old[field][x]

\* C27: write_task_memory sets the one artifact key of the task to the new
\* value and write_agent_output sets the one writer's output to the new
\* output, whatever was stored under it; every other artifact, every other
\* output, the prompt and every other task document stay as they were.
C27_LedgerUpsert ==
    [][/\ \A t \in TaskIds, inp \in LedgerArtifacts :
            WriteToTaskMemory(inp, t)
            => Upserted(t, "artifacts", inp.key, [value |-> inp.value])
       /\ \A t \in TaskIds, o \in LedgerOutputs :
            WriteAgentOutput(t, o[1], o[2])
            => Upserted(t, "agent_outputs", o[1], o[2])]_vars

C27_Witness ==
    /\ <<"T1">> \in DOMAIN tasks
    /\ DOMAIN tasks[<<"T1">>] = {"task_id", "prompt", "artifacts", "agent_outputs"}
    /\ tasks[<<"T1">>].prompt = <<"prompt">>
    /\ DOMAIN tasks[<<"T1">>].artifacts = {<<"k1">>, <<"k2">>}
    /\ tasks[<<"T1">>].artifacts[<<"k1">>] = [value |-> <<"v2">>]
    /\ DOMAIN tasks[<<"T1">>].agent_outputs = {<<"research">>, <<"orchestrator">>}
    /\ tasks[<<"T1">>].agent_outputs[<<"research">>] = <<"o2">>

HasToken(text, token) == \E i \in 1..Len(text) : text[i] = token

\* the part of a context text from a section header up to the blank line that
\* ends the section, or the empty text when the header is not in it
SectionOf(text, header) ==
    IF ~HasToken(text, header[1])
    THEN <<>>
    ELSE LET start == CHOOSE i \in 1..Len(text) : text[i] = header[1]
             stops == {j \in start..Len(text) : text[j] = "\n\n"}
             stop == IF stops = {} THEN Len(text) + 1
                     ELSE CHOOSE j \in stops : \A k \in stops : j <= k
         IN  SubSeq(text, start, stop - 1)

\* a step that is the get_context call c: what it returns is empty or starts
\* with the header that names the task and the agent of c
ContextStep(c) ==
    /\ ret' = <<>> \/ StartsWith(ret', ContextHeader(c[1], c[2]))
    /\ GetContext(c[1], c[2], c[3], c[4], c[5], SeededOrder(c[3]))

\* C24: a get_context call, whatever its arguments, leaves the Task Memory,
\* the Canon, the Buffer, the disputes and every scratch file as they were.
C24_ContextReadOnly ==
    [][\A c \in ContextCalls :
            ContextStep(c)
            => /\ tasks' = tasks
               /\ canon' = canon
               /\ buffer_file' = buffer_file
               /\ disputes' = disputes
               /\ scratch' = scratch]_vars

C24_Witness ==
    /\ HasToken(ret, TaskHeader[1])
    /\ HasToken(ret, CanonHeader[1])
    /\ HasToken(ret, BufferHeader[1])
    /\ HasToken(ret, ScratchHeader[1])
    /\ read_scratch(scratch, <<"research">>, <<"T1">>) # <<>>
    /\ Len(Log) = MaxBuffer

PendingAt(task_id) ==
    {i \in 1..Len(Log) : Log[i].task_id = task_id /\ Pends(Log[i])}

\* the positions of the last n pending entries of the task
ShownAt(task_id, n) ==
    {i \in PendingAt(task_id) :
        Cardinality({j \in PendingAt(task_id) : j > i}) < n}

RECURSIVE TentativeLines(_, _, _)
TentativeLines(i, task_id, n) ==
    IF i > Len(Log) THEN <<>>
    ELSE (IF i \in ShownAt(task_id, n) THEN NL \o BufferLine(Log[i]) ELSE <<>>)
         \o TentativeLines(i + 1, task_id, n)

ExpectedTentative(task_id, n) ==
    IF PendingAt(task_id) = {} THEN <<>>
    ELSE BufferHeader \o TentativeLines(1, task_id, n)

\* C25: the tentative section of the context built for a task holds one line
\* for each of the last max_buffer entries of the log that belong to the task
\* and are neither promoted nor dismissed, in the order of the log, and no
\* other line; there is no section when the task has no such entry.
C25_TentativeSection ==
    [][\A c \in ContextCalls :
            ContextStep(c)
            => SectionOf(ret', BufferHeader) = ExpectedTentative(c[1], c[4])]_vars

C25_Witness ==
    /\ Len(Log) = MaxBuffer
    /\ \A i \in 1..Len(Log) : Log[i].task_id = <<"T1">> /\ Pends(Log[i])
    /\ Log[1].claim # Log[Len(Log)].claim
    /\ SectionOf(ret, BufferHeader) = BufferHeader \o NL \o BufferLine(Log[Len(Log)])

ScratchWriters == {<<"research">>, <<"code">>, <<"orchestrator">>}

OwnFile(agent_type, task_id) == agent_type \o <<"_">> \o task_id

NotesAt(files, agent_type, task_id) ==
    IF OwnFile(agent_type, task_id) \in DOMAIN files
    THEN files[OwnFile(agent_type, task_id)]
    ELSE <<>>

RECURSIVE NoteLines(_)
NoteLines(notes) ==
    IF notes = <<>> THEN <<>>
    ELSE NL \o ScratchLine(Head(notes)) \o NoteLines(Tail(notes))

ExpectedScratch(notes, n) ==
    IF notes = <<>> THEN <<>> ELSE ScratchHeader \o NoteLines(LastN(notes, n))

C36_InitOverwrites ==
    [][\A t \in TaskIds, p \in Prompts :
            InitTask(t, p)
            => /\ DOMAIN tasks' = DOMAIN tasks \cup {t}
               /\ DOMAIN tasks'[t] = {"task_id", "prompt", "artifacts", "agent_outputs"}
               /\ tasks'[t].task_id = t
               /\ tasks'[t].prompt = p
               /\ DOMAIN tasks'[t].artifacts = {}
               /\ DOMAIN tasks'[t].agent_outputs = {}
               /\ \A u \in DOMAIN tasks \ {t} : tasks'[u] = tasks[u]]_vars

\* T1 initialised a second time, with the second prompt, after T2 was
\* initialised with the first and written to
C36_Witness ==
    /\ ret = NoReturn
    /\ <<"T1">> \in DOMAIN tasks /\ <<"T2">> \in DOMAIN tasks
    /\ tasks[<<"T1">>] = NewTask(<<"T1">>, <<"prompt2">>)
    /\ "prompt" \in DOMAIN tasks[<<"T2">>]
    /\ tasks[<<"T2">>].prompt = <<"prompt">>
    /\ DOMAIN tasks[<<"T2">>].artifacts = {<<"k1">>, <<"k2">>}

\* C38: no agent on the stack runs at a depth above 3 and each runs one level
\* below its caller, and a spawn_sub_agent or spawn_sub_orchestrator request
\* handled at depth 3 or more returns the refusal text and enters no agent.
C38_DepthBound ==
    /\ [](\A i \in 1..Len(running) : running[i].depth = i - 1 /\ running[i].depth <= 3)
    /\ [][/\ \A req \in SpawnRequests :
                (SpawnSubAgent(req) /\ Top.depth >= 3)
                => (ret' = MsgMaxDepth /\ running' = running)
          /\ (SpawnSubOrchestrator /\ Top.depth >= 3)
                => (ret' = MsgMaxOrchestratorDepth /\ running' = running)]_vars

C38_Witness ==
    /\ Len(running) = 4
    /\ running[3].kind = "orchestrator"
    /\ Top.kind = "specialist" /\ Top.depth = 3
    /\ ret = MsgMaxDepth

SameEntry(old, new) ==
    /\ new.id = old.id
    /\ new.claim = old.claim
    /\ new.source = old.source
    /\ new.agent = old.agent
    /\ new.task_id = old.task_id
    /\ new.confidence = old.confidence

\* C37: no step of the sequential program removes or reorders an entry of the
\* Buffer or changes its id, claim, source, agent, task or confidence, and a
\* promoted or dismissed flag that is set stays set.
C37_AppendOnly ==
    [][/\ Len(read_buffer(buffer_file')) >= Len(Log)
       /\ \A i \in 1..Len(Log) :
            /\ SameEntry(Log[i], read_buffer(buffer_file')[i])
            /\ Log[i].promoted => read_buffer(buffer_file')[i].promoted
            /\ Log[i].dismissed => read_buffer(buffer_file')[i].dismissed]_vars

C37_Witness ==
    /\ Len(Log) = 2
    /\ Log[1].id = <<"e1">> /\ Log[1].claim = <<"X=5">> /\ Log[1].promoted
    /\ Log[2].id = <<"e2">> /\ Log[2].claim = <<"X=6">> /\ Log[2].dismissed
    /\ Log[2].source = <<"paper">> /\ Log[2].confidence = 6

Disputed(entry_id) == \E i \in 1..Len(disputes) : disputes[i].buffer_id = entry_id

\* C31: a promote decision for an entry that a recorded dispute names leaves
\* the Buffer and the Canon as they were.
C31_DisputedNotPromoted ==
    [][(/\ Dispatching("promote_to_canon")
        /\ Disputed(Get(Head(blocks).input, "entry_id", <<>>)))
       => (buffer_file' = buffer_file /\ canon' = canon)]_vars

\* C33: a promote decision that writes the Canon stores, under the target key,
\* the source text "buffer:" + the id of the promoted entry + "|curator_promoted".
C33_ProvenanceNamesEntry ==
    [][(Dispatching("promote_to_canon") /\ canon' # canon)
       => LET inp == Head(blocks).input
              entry_id == Get(inp, "entry_id", <<>>)
              full_key == EntryId(Get(inp, "namespace", <<"facts">>),
                                  Get(inp, "key", entry_id))
          IN  /\ full_key \in DOMAIN canon'
              /\ canon'[full_key].source
                    = <<"buffer:">> \o entry_id \o <<"|curator_promoted">>]_vars

ContainsText(text, part) ==
    \E k \in 0..(Len(text) - Len(part)) : SubSeq(text, k + 1, k + Len(part)) = part

\* C34: when curate_task returns a value after the oracle's last response, the
\* value contains the outcome of every decision of the round before it.
C34_ReturnsOutcomes ==
    [][(cur_pc = "oracle" /\ cur_pc' = "idle" /\ ret' # Raised)
       => \A i \in 1..Len(tool_results) : ContainsText(ret', tool_results[i])]_vars

Malformed(decision) ==
    \/ decision.name \notin {"promote_to_canon", "flag_conflict", "dismiss_buffer_entry"}
    \/ "confidence_text" \in DOMAIN decision.input

\* C32: dispatching a decision with an unknown name or a confidence that is
\* not a number changes no store, adds one result to the results of the
\* response, and leaves the rest of the response to be dispatched.
C32_MalformedSkipped ==
    [][(cur_pc = "dispatch" /\ blocks # <<>> /\ Malformed(Head(blocks)))
       => /\ canon' = canon /\ buffer_file' = buffer_file /\ disputes' = disputes
          /\ Len(tool_results') = Len(tool_results) + 1
          /\ blocks' = Tail(blocks)]_vars

\* C35: a curate_task call that has started returns.
C35_CurationTerminates == (cur_pc # "idle") ~> (cur_pc = "idle")

\* C39: every Buffer entry with promoted set has a Canon entry whose content
\* is the entry's claim.
C39_PromotedBacked ==
    \A i \in 1..Len(Log) :
        Log[i].promoted => \E k \in DOMAIN canon : canon[k].content = Log[i].claim

DistinctIds == \A i, j \in 1..Len(Log) : Log[i].id = Log[j].id => i = j

\* C40: with no two entries sharing an id, a decision dispatched by
\* curate_task(T) leaves every Buffer entry that
\* was not selected at the start of the call - the entries of other tasks and
\* the entries of T that were promoted or dismissed by then - as it was, and
\* writes the Canon only with the claim of a selected entry.
C40_ScopedToTask ==
    [][(cur_pc = "dispatch" /\ DistinctIds)
       => /\ \A i \in 1..Len(Log) :
                (~\E j \in 1..Len(cur_buffer) : cur_buffer[j] = Log[i])
                => read_buffer(buffer_file')[i] = Log[i]
          /\ \A k \in DOMAIN canon' :
                (k \notin DOMAIN canon \/ canon'[k] # canon[k])
                => \E j \in 1..Len(cur_buffer) : cur_buffer[j].claim = canon'[k].content]_vars

====
